---------------------------- MODULE Spec2Model ----------------------------
(***************************************************************************)
(* PolynomialsABF<dim> (deal.II/base/source/polynomials_abf.cc): the       *)
(* vector-valued polynomial space of the Arnold-Boffi-Falk element.  The   *)
(* model follows the constructor, compute() and compute_n_pols().          *)
(*                                                                         *)
(* Numbers of type double are modelled as exact rationals <<n, d>> in      *)
(* lowest terms with d > 0.  std::vector and Tensor objects are functions  *)
(* over 0 .. size-1, so that an index of the model is an index of the      *)
(* source.                                                                 *)
(***************************************************************************)
EXTENDS Integers, Sequences, FiniteSets, TLC

(***************************************************************************)
(* Bounds of the model.                                                    *)
(***************************************************************************)
\* largest degree k an instance is constructed with
MaxK == 1
\* largest degree passed to a direct call of compute_n_pols
MaxKQuery == 24
\* template arguments dim = 0 .. MaxDimQuery of a direct call of compute_n_pols
MaxDimQuery == 4

(***************************************************************************)
(* Rational arithmetic.                                                    *)
(***************************************************************************)
RECURSIVE GCD(_, _)
GCD(a, b) == IF b = 0 THEN a ELSE GCD(b, a % b)

Abs(a) == IF a < 0 THEN -a ELSE a

RNorm(n, d) ==
  LET g == GCD(Abs(n), d) IN <<n \div g, d \div g>>

Zero == <<0, 1>>
One == <<1, 1>>
RInt(n) == <<n, 1>>
RAdd(x, y) == RNorm(x[1] * y[2] + y[1] * x[2], x[2] * y[2])
RMul(x, y) == RNorm(x[1] * y[1], x[2] * y[2])
\* n / d for integers n and d # 0
RFrac(n, d) == IF d < 0 THEN RNorm(-n, -d) ELSE RNorm(n, d)

(***************************************************************************)
(* Vectors indexed from 0.                                                 *)
(***************************************************************************)
Size(v) == Cardinality(DOMAIN v)
EmptyVec == [i \in {} |-> Zero]
Fill(n, x) == [i \in 0 .. n - 1 |-> x]

(***************************************************************************)
(* One-dimensional polynomials: a polynomial is the vector of its          *)
(* coefficients, c[0] + c[1] x + ...                                       *)
(***************************************************************************)
\* (a[0] + a[1] x + ...) * (b0 + b1 x)
PolyMulLinear(a, b0, b1) ==
  [m \in 0 .. Size(a) |->
     RAdd(IF m < Size(a) THEN RMul(a[m], b0) ELSE Zero,
          IF m > 0 THEN RMul(a[m - 1], b1) ELSE Zero)]

\* product over j in 0..n, j # i, of (n x - j) / (i - j), factors j < upto
RECURSIVE LagrangeProduct(_, _, _)
LagrangeProduct(n, i, upto) ==
  IF upto = 0 THEN [m \in {0} |-> One]
  ELSE LET j == upto - 1
           rest == LagrangeProduct(n, i, j)
       IN IF j = i THEN rest
          ELSE PolyMulLinear(rest, RFrac(-j, i - j), RFrac(n, i - j))

\* Polynomials::LagrangeEquidistant::generate_complete_basis(degree)
LagrangeEquidistant_generate_complete_basis(degree) ==
  IF degree = 0 THEN [i \in {0} |-> [m \in {0} |-> One]]
  ELSE [i \in 0 .. degree |-> LagrangeProduct(degree, i, degree + 1)]

\* Polynomials::Legendre::generate_complete_basis(0): the constant 1
Legendre_generate_complete_basis(degree) ==
  [i \in {0} |-> [m \in {0} |-> One]]

\* the derivative of a polynomial
PolyDerivative(c) ==
  IF Size(c) <= 1 THEN [m \in {0} |-> Zero]
  ELSE [m \in 0 .. Size(c) - 2 |-> RMul(RInt(m + 1), c[m + 1])]

RECURSIVE Horner(_, _, _)
Horner(c, x, m) ==
  IF m = Size(c) - 1 THEN c[m]
  ELSE RAdd(c[m], RMul(x, Horner(c, x, m + 1)))

\* Polynomial<double>::value(x, values): value and first two derivatives
PolyValue(c, x) ==
  LET c1 == PolyDerivative(c)
      c2 == PolyDerivative(c1)
  IN [o \in 0 .. 2 |->
        IF o = 0 THEN Horner(c, x, 0)
        ELSE IF o = 1 THEN Horner(c1, x, 0) ELSE Horner(c2, x, 0)]


(***************************************************************************)
(* AnisotropicPolynomials<dim>: the tensor product of one family of        *)
(* polynomials per coordinate direction.  A space is the vector of its     *)
(* families, pols[0 .. dim-1].                                             *)
(***************************************************************************)
RECURSIVE SpaceSizeUpTo(_, _)
SpaceSizeUpTo(pols, d) ==
  IF d = 0 THEN 1 ELSE Size(pols[d - 1]) * SpaceSizeUpTo(pols, d - 1)

\* AnisotropicPolynomials<dim>::n(): the product of the family sizes
SpaceN(pols) == SpaceSizeUpTo(pols, Size(pols))

\* AnisotropicPolynomials<dim>::compute_index: direction 0 runs fastest
ComputeIndex(pols, i) ==
  [d \in DOMAIN pols |-> (i \div SpaceSizeUpTo(pols, d)) % Size(pols[d])]

RECURSIVE ProductUpTo(_, _)
ProductUpTo(f, d) ==
  IF d = 0 THEN One ELSE RMul(f[d - 1], ProductUpTo(f, d - 1))

\* 1 when a = b, else 0
Delta(a, b) == IF a = b THEN 1 ELSE 0

\* AnisotropicPolynomials<dim>::compute(p, values, grads, grad_grads): a
\* container of size n() is filled, one of size 0 is skipped
AnisoCompute(pols, p, values, grads, grad_grads) ==
  LET dm == Size(pols)
      n == SpaceN(pols)
      D == 0 .. dm - 1
      v == [d \in D |-> [j \in DOMAIN pols[d] |-> PolyValue(pols[d][j], p[d])]]
      idx == [i \in 0 .. n - 1 |-> ComputeIndex(pols, i)]
  IN [p_values |->
        IF Size(values) = n
        THEN [i \in 0 .. n - 1 |->
                ProductUpTo([x \in D |-> v[x][idx[i][x]][0]], dm)]
        ELSE values,
      p_grads |->
        IF Size(grads) = n
        THEN [i \in 0 .. n - 1 |-> [d \in D |->
                ProductUpTo([x \in D |-> v[x][idx[i][x]][Delta(d, x)]], dm)]]
        ELSE grads,
      p_grad_grads |->
        IF Size(grad_grads) = n
        THEN [i \in 0 .. n - 1 |-> [d1 \in D |-> [d2 \in D |->
                ProductUpTo([x \in D |->
                   v[x][idx[i][x]][Delta(d1, x) + Delta(d2, x)]], dm)]]]
        ELSE grad_grads]

(***************************************************************************)
(* PolynomialsABF<dim>.                                                    *)
(***************************************************************************)
\* the explicit instantiations of the class template
InstantiatedDims == {1, 2, 3}

\* the Assert macro: the exception is raised when the condition is false
Raises(cond) == ~cond

\* a variant of compute_n_pols whose dim = 3 size is 3 times the size of the
\* scalar space the constructor builds
compute_n_pols_Dim3FromSpace(dm, k) ==
  IF dm = 1 THEN [error |-> "none", value |-> k + 1]
  ELSE IF dm = 2 THEN [error |-> "none", value |-> 2 * (k + 1) * (k + 3)]
  ELSE IF dm = 3
  THEN [error |-> "none", value |-> 3 * (k + 1) * (k + 1) * (k + 3)]
  ELSE IF Raises(FALSE) THEN [error |-> "ExcNotImplemented", value |-> 0]
  ELSE [error |-> "none", value |-> 0]

\* PolynomialsABF<dim>::compute_n_pols(k)
compute_n_pols(dm, k) ==
  IF dm = 1 THEN [error |-> "none", value |-> k + 1]
  ELSE IF dm = 2 THEN [error |-> "none", value |-> 2 * (k + 1) * (k + 3)]
  ELSE IF dm = 3
  THEN [error |-> "none", value |-> 3 * (k + 1) * (k + 1) * (k + 2)]
  ELSE IF Raises(FALSE) THEN [error |-> "ExcNotImplemented", value |-> 0]
  ELSE [error |-> "none", value |-> 0]

\* the families the constructor hands to AnisotropicPolynomials<dim>
ConstructorPols(dm, k) ==
  [d \in 0 .. dm - 1 |->
     IF d = 0 THEN LagrangeEquidistant_generate_complete_basis(k + 2)
     ELSE IF k = 0 THEN Legendre_generate_complete_basis(0)
     ELSE LagrangeEquidistant_generate_complete_basis(k)]

\* PolynomialsABF<dim>::PolynomialsABF(k): the fields of the new object
Constructor(dm, k) ==
  [dim |-> dm,
   my_degree |-> k,
   n_pols |-> compute_n_pols(dm, k).value,
   polynomial_space |-> ConstructorPols(dm, k)]

\* value-initialised Tensor<1,dim>, Tensor<2,dim>, Tensor<3,dim>
Tensor1(dm, x) == [c \in 0 .. dm - 1 |-> x]
Tensor2(dm, x) == [c \in 0 .. dm - 1 |-> Tensor1(dm, x)]
Tensor3(dm, x) == [c \in 0 .. dm - 1 |-> Tensor2(dm, x)]

\* one size check of compute(): the container is full or empty
SizeOk(size, np) == size = np \/ size = 0

\* a variant of the size checks that leaves out the one on grad_grads
ArgumentsOk_NoGradGrads(values, grads, grad_grads, np) ==
  /\ SizeOk(Size(values), np)
  /\ SizeOk(Size(grads), np)

\* the three size checks at the head of compute()
ArgumentsOk(values, grads, grad_grads, np) ==
  /\ SizeOk(Size(values), np)
  /\ SizeOk(Size(grads), np)
  /\ SizeOk(Size(grad_grads), np)

\* std::vector::resize(n): the first elements are kept, new ones are zero
ResizeVec(v, n, init) ==
  [i \in 0 .. n - 1 |-> IF i < Size(v) THEN v[i] ELSE init]

\* a variant of the resize calls that grows the scratch and never shrinks it
ResizeScratch_NeverShrinks(sc, values, grads, grad_grads, n_sub, dm) ==
  [p_values |->
     IF Size(values) = 0 THEN sc.p_values
     ELSE ResizeVec(sc.p_values, n_sub, Zero),
   p_grads |->
     IF Size(grads) = 0 THEN sc.p_grads
     ELSE ResizeVec(sc.p_grads, n_sub, Tensor1(dm, Zero)),
   p_grad_grads |->
     IF Size(grad_grads) = 0 THEN sc.p_grad_grads
     ELSE ResizeVec(sc.p_grad_grads, n_sub, Tensor2(dm, Zero))]

\* the three resize calls of compute()
ResizeScratch(sc, values, grads, grad_grads, n_sub, dm) ==
  [p_values |->
     ResizeVec(sc.p_values, IF Size(values) = 0 THEN 0 ELSE n_sub, Zero),
   p_grads |->
     ResizeVec(sc.p_grads, IF Size(grads) = 0 THEN 0 ELSE n_sub,
               Tensor1(dm, Zero)),
   p_grad_grads |->
     ResizeVec(sc.p_grad_grads, IF Size(grad_grads) = 0 THEN 0 ELSE n_sub,
               Tensor2(dm, Zero))]

\* the point handed to the anisotropic space for direction d
RotatedPoint(unit_point, d, dm) ==
  [c \in 0 .. dm - 1 |-> unit_point[(c + d) % dm]]

\* the index of the output tensor that receives derivative d1 of the scratch
UnrotatedIndex(d1, d, dm) == (d1 + d) % dm

\* a variant of the slot that leaves out the stride n_sub of the blocks
Slot_NoStride(i, d, n_sub) == i + d

\* the slot of the output containers that receives scratch entry i
Slot(i, d, n_sub) == i + d * n_sub

\* the loop over d1 writing row d of grads[slot], iterations 0 .. m-1
RECURSIVE WriteGradRow(_, _, _, _)
WriteGradRow(row, src, d, m) ==
  IF m = 0 THEN row
  ELSE [WriteGradRow(row, src, d, m - 1)
          EXCEPT ![UnrotatedIndex(m - 1, d, Size(row))] = src[m - 1]]

\* the loops over d1, d2 writing slice d of grad_grads[slot]: iteration m
\* has d1 = m \div dim and d2 = m % dim
RECURSIVE WriteHessSlice(_, _, _, _)
WriteHessSlice(slice, src, d, m) ==
  IF m = 0 THEN slice
  ELSE LET dm == Size(slice)
           d1 == (m - 1) \div dm
           d2 == (m - 1) % dm
       IN [WriteHessSlice(slice, src, d, m - 1)
             EXCEPT ![UnrotatedIndex(d1, d, dm)][UnrotatedIndex(d2, d, dm)] =
                       src[d1][d2]]

\* the loop over i writing values[Slot(i)][d], iterations 0 .. m-1; a write
\* past the end of the container leaves the container as it is
RECURSIVE ScatterValuesLoop(_, _, _, _, _)
ScatterValuesLoop(values, p_values, d, n_sub, m) ==
  IF m = 0 THEN values
  ELSE LET prev == ScatterValuesLoop(values, p_values, d, n_sub, m - 1)
           j == Slot(m - 1, d, n_sub)
       IN IF j \in DOMAIN prev
          THEN [prev EXCEPT ![j][d] = p_values[m - 1]]
          ELSE prev

\* a variant of the loop that assigns the whole entry values[Slot(i)],
\* zero in every component but d
ScatterValues_WholeEntry(values, p_values, d, n_sub) ==
  [j \in DOMAIN values |->
     IF \E i \in DOMAIN p_values : Slot(i, d, n_sub) = j
     THEN [c \in DOMAIN values[j] |->
             IF c = d
             THEN p_values[CHOOSE i \in DOMAIN p_values :
                             Slot(i, d, n_sub) = j]
             ELSE Zero]
     ELSE values[j]]

ScatterValues(values, p_values, d, n_sub) ==
  ScatterValuesLoop(values, p_values, d, n_sub, Size(p_values))

RECURSIVE ScatterGradsLoop(_, _, _, _, _)
ScatterGradsLoop(grads, p_grads, d, n_sub, m) ==
  IF m = 0 THEN grads
  ELSE LET prev == ScatterGradsLoop(grads, p_grads, d, n_sub, m - 1)
           j == Slot(m - 1, d, n_sub)
       IN IF j \in DOMAIN prev
          THEN [prev EXCEPT ![j][d] =
                  WriteGradRow(prev[j][d], p_grads[m - 1], d, Size(prev[j]))]
          ELSE prev

ScatterGrads(grads, p_grads, d, n_sub) ==
  ScatterGradsLoop(grads, p_grads, d, n_sub, Size(p_grads))

RECURSIVE ScatterGradGradsLoop(_, _, _, _, _)
ScatterGradGradsLoop(grad_grads, p_grad_grads, d, n_sub, m) ==
  IF m = 0 THEN grad_grads
  ELSE LET prev ==
             ScatterGradGradsLoop(grad_grads, p_grad_grads, d, n_sub, m - 1)
           j == Slot(m - 1, d, n_sub)
           dm == Size(prev[j])
       IN IF j \in DOMAIN prev
          THEN [prev EXCEPT ![j][d] =
                  WriteHessSlice(prev[j][d], p_grad_grads[m - 1], d, dm * dm)]
          ELSE prev

ScatterGradGrads(grad_grads, p_grad_grads, d, n_sub) ==
  ScatterGradGradsLoop(grad_grads, p_grad_grads, d, n_sub, Size(p_grad_grads))

\* a scatter loop indexes its container past the end: undefined behaviour
OutOfRange(container, scratch, d, n_sub) ==
  \E i \in DOMAIN scratch : Slot(i, d, n_sub) \notin DOMAIN container

(***************************************************************************)
(* The three scatter loops of direction d.  out holds the caller's three   *)
(* containers, sc the scratch.  A write past the end of a container is     *)
(* undefined behaviour; the model keeps two outcomes of it, chosen by      *)
(* crash: the program is stopped at the first such write (crashed), or the *)
(* write lands outside the containers and execution goes on (oob).         *)
(***************************************************************************)
ScatterDirection(out, sc, d, n_sub, crash) ==
  LET ov == OutOfRange(out.values, sc.p_values, d, n_sub)
      og == OutOfRange(out.grads, sc.p_grads, d, n_sub)
      oh == OutOfRange(out.grad_grads, sc.p_grad_grads, d, n_sub)
      v1 == ScatterValues(out.values, sc.p_values, d, n_sub)
      g1 == ScatterGrads(out.grads, sc.p_grads, d, n_sub)
      h1 == ScatterGradGrads(out.grad_grads, sc.p_grad_grads, d, n_sub)
  IN IF crash /\ ov
     THEN [values |-> v1, grads |-> out.grads, grad_grads |-> out.grad_grads,
           oob |-> TRUE, crashed |-> TRUE]
     ELSE IF crash /\ og
     THEN [values |-> v1, grads |-> g1, grad_grads |-> out.grad_grads,
           oob |-> TRUE, crashed |-> TRUE]
     ELSE [values |-> v1, grads |-> g1, grad_grads |-> h1,
           oob |-> out.oob \/ ov \/ og \/ oh, crashed |-> crash /\ oh]

\* one iteration of the loop over d in compute()
DirectionStep(obj, st, unit_point, d, crash) ==
  IF st.out.crashed THEN st
  ELSE LET n_sub == SpaceN(obj.polynomial_space)
           p == RotatedPoint(unit_point, d, obj.dim)
           sc == AnisoCompute(obj.polynomial_space, p, st.sc.p_values,
                              st.sc.p_grads, st.sc.p_grad_grads)
       IN [out |-> ScatterDirection(st.out, sc, d, n_sub, crash), sc |-> sc]

\* iterations 0 .. m-1 of the loop over d
RECURSIVE DirectionLoop(_, _, _, _, _)
DirectionLoop(obj, st, unit_point, m, crash) ==
  IF m = 0 THEN st
  ELSE DirectionStep(obj, DirectionLoop(obj, st, unit_point, m - 1, crash),
                     unit_point, m - 1, crash)

\* how a call of compute() ended
Outcome(out) ==
  IF out.crashed THEN "crashed" ELSE IF out.oob THEN "oob" ELSE "ok"

\* PolynomialsABF<dim>::compute(unit_point, values, grads, grad_grads) on the
\* object obj with scratch sc: the containers, the scratch and the outcome
Compute(obj, sc, arg, crash) ==
  IF Raises(ArgumentsOk(arg.values, arg.grads, arg.grad_grads, obj.n_pols))
  THEN [values |-> arg.values, grads |-> arg.grads,
        grad_grads |-> arg.grad_grads, sc |-> sc,
        status |-> "ExcDimensionMismatch"]
  ELSE LET n_sub == SpaceN(obj.polynomial_space)
           st0 == [out |-> [values |-> arg.values, grads |-> arg.grads,
                            grad_grads |-> arg.grad_grads,
                            oob |-> FALSE, crashed |-> FALSE],
                   sc |-> ResizeScratch(sc, arg.values, arg.grads,
                                        arg.grad_grads, n_sub, obj.dim)]
           st == DirectionLoop(obj, st0, arg.unit_point, obj.dim, crash)
       IN [values |-> st.out.values, grads |-> st.out.grads,
           grad_grads |-> st.out.grad_grads, sc |-> st.sc,
           status |-> Outcome(st.out)]

(***************************************************************************)
(* The state: one object of the class (its template argument and its       *)
(* fields, the mutable scratch p_values, p_grads, p_grad_grads among       *)
(* them), and the last call of compute() on it: the arguments as the       *)
(* caller passed them (given), the caller's containers after the call and  *)
(* how the call ended.                                                     *)
(***************************************************************************)
VARIABLES dim, my_degree, n_pols, polynomial_space,
          p_values, p_grads, p_grad_grads,
          given, values, grads, grad_grads, status,
          query, thread

vars == <<dim, my_degree, n_pols, polynomial_space,
          p_values, p_grads, p_grad_grads,
          given, values, grads, grad_grads, status, query, thread>>

objectVars == <<dim, my_degree, n_pols, polynomial_space>>
scratchVars == <<p_values, p_grads, p_grad_grads>>
callVars == <<given, values, grads, grad_grads, status>>

Obj == [dim |-> dim, my_degree |-> my_degree, n_pols |-> n_pols,
        polynomial_space |-> polynomial_space]

Scratch == [p_values |-> p_values, p_grads |-> p_grads,
            p_grad_grads |-> p_grad_grads]

EmptyScratch == [p_values |-> EmptyVec, p_grads |-> EmptyVec,
                 p_grad_grads |-> EmptyVec]

(***************************************************************************)
(* The inputs the model draws.                                             *)
(***************************************************************************)
Half == <<1, 2>>
Quarter == <<1, 4>>
ThreeQuarters == <<3, 4>>
Seven == <<7, 1>>

\* points of the unit cube; a point of dimension dm is the first dm
\* coordinates
PointA == [c \in 0 .. 2 |-> IF c = 2 THEN Quarter ELSE Half]
PointB == [c \in 0 .. 2 |->
             IF c = 0 THEN Quarter ELSE IF c = 1 THEN ThreeQuarters ELSE Zero]
BasePoints == {PointA, PointB}
Project(b, dm) == [c \in 0 .. dm - 1 |-> b[c]]
Points(dm) == {Project(b, dm) : b \in BasePoints}

\* the objects constructed: every instantiated dim, degrees 0 .. MaxK, as
\* long as the scalar space has at most MaxNSub functions
MaxNSub == 8
Objects ==
  {o \in {Constructor(dm, k) : dm \in InstantiatedDims, k \in 0 .. MaxK} :
     SpaceN(o.polynomial_space) <= MaxNSub}

\* the lengths of values, grads, grad_grads in a call with valid lengths:
\* each is empty or full
ValidShapes(np) == [0 .. 2 -> {0, np}]

\* and in a call with an invalid length: any one, two or three containers
\* one entry too long beside full ones, or one container one entry too
\* short beside empty ones
InvalidShapes(np) ==
  {[x \in 0 .. 2 |-> IF x \in B THEN np + 1 ELSE np] :
     B \in (SUBSET (0 .. 2)) \ {{}}}
  \cup (IF np > 1
        THEN {[x \in 0 .. 2 |-> IF x = b THEN np - 1 ELSE 0] : b \in 0 .. 2}
        ELSE {})

\* the arguments of a call: a point and three containers of the given
\* lengths, every component of every entry holding fill
MakeArg(dm, pt, lv, lg, lh, fill) ==
  [unit_point |-> pt,
   values |-> Fill(lv, Tensor1(dm, fill)),
   grads |-> Fill(lg, Tensor2(dm, fill)),
   grad_grads |-> Fill(lh, Tensor3(dm, fill))]

\* the calls drawn: valid lengths come with fresh (zero) containers at every
\* point and, at the first point, with containers holding 7 (all three, or
\* values alone); invalid lengths come with fresh containers at the first
\* point
CallArgs(dm, np) ==
  {MakeArg(dm, pt, s[0], s[1], s[2], Zero) :
     pt \in Points(dm), s \in ValidShapes(np)}
  \cup {MakeArg(dm, Project(PointA, dm), np, l, l, Seven) : l \in {0, np}}
  \cup {MakeArg(dm, Project(PointA, dm), s[0], s[1], s[2], Zero) :
          s \in InvalidShapes(np)}

\* no arguments: before the first call
NoArg == [unit_point |-> EmptyVec, values |-> EmptyVec,
          grads |-> EmptyVec, grad_grads |-> EmptyVec]

\* the threads that may call compute() on the object without serializing
Threads == {"T1", "T2"}

\* a thread that has not called compute() yet.  pc is its position in
\* compute(), d the loop variable, arg the arguments it passed, values,
\* grads, grad_grads its containers, oob whether it indexed a container
\* past the end, overlapped whether its call ran while another call ran
IdleThread ==
  [pc |-> "idle", d |-> 0, arg |-> NoArg, values |-> EmptyVec,
   grads |-> EmptyVec, grad_grads |-> EmptyVec, oob |-> FALSE,
   overlapped |-> FALSE]

Init ==
  /\ \E o \in Objects :
       /\ dim = o.dim
       /\ my_degree = o.my_degree
       /\ n_pols = o.n_pols
       /\ polynomial_space = o.polynomial_space
  /\ p_values = EmptyVec
  /\ p_grads = EmptyVec
  /\ p_grad_grads = EmptyVec
  /\ given = NoArg
  /\ values = EmptyVec
  /\ grads = EmptyVec
  /\ grad_grads = EmptyVec
  /\ status = "constructed"
  /\ query = [dim |-> 1, k |-> 0, result |-> compute_n_pols(1, 0)]
  /\ thread = [t \in Threads |-> IdleThread]

\* a call of compute() on the object, run to its end; a program that was
\* stopped makes no further call
Evaluate ==
  /\ status # "crashed"
  /\ \E arg \in CallArgs(dim, n_pols), crash \in BOOLEAN :
    \E r \in {Compute(Obj, Scratch, arg, crash)} :
       /\ given' = arg
       /\ values' = r.values
       /\ grads' = r.grads
       /\ grad_grads' = r.grad_grads
       /\ status' = r.status
       /\ p_values' = r.sc.p_values
       /\ p_grads' = r.sc.p_grads
       /\ p_grad_grads' = r.sc.p_grad_grads
       /\ UNCHANGED <<objectVars, query, thread>>

Next == Evaluate

Spec == Init /\ [][Next]_vars

(***************************************************************************)
(* Direct calls of the static function compute_n_pols, for any template    *)
(* argument and degree.                                                    *)
(***************************************************************************)
QueryNPols ==
  /\ \E dm \in 0 .. MaxDimQuery, k \in 0 .. MaxKQuery :
       query' = [dim |-> dm, k |-> k, result |-> compute_n_pols(dm, k)]
  /\ UNCHANGED <<objectVars, scratchVars, callVars, thread>>

NextQuery == QueryNPols

SpecQuery == Init /\ [][NextQuery]_vars

(***************************************************************************)
(* Calls of compute() from several threads on one object, not serialized.  *)
(* Each thread makes one call; the call proceeds in the steps Begin (the   *)
(* size checks and the three resize calls), Eval (the scalar space fills   *)
(* the scratch for the direction d) and Scatter (the three loops copy the  *)
(* scratch into the thread's containers), and between two steps of one     *)
(* thread any step of another may run.  The scratch p_values, p_grads,     *)
(* p_grad_grads is the object's and so shared.  The object is one on which *)
(* a call running alone stays inside its containers (dim = 2).             *)
(***************************************************************************)
\* the calls drawn: a point and fresh containers, values alone, grads alone
\* or all three; and one call with values one entry too long
ConcArgs(dm, np) ==
  {MakeArg(dm, pt, s[0], s[1], s[2], Zero) :
     pt \in Points(dm),
     s \in {[x \in 0 .. 2 |-> IF x \in B THEN np ELSE 0] :
              B \in {{0}, {1}, {0, 1, 2}}}}
  \cup {MakeArg(dm, Project(PointA, dm), np + 1, 0, 0, Zero)}

\* thread u is between its Begin and its return
InFlight(u) == thread[u].pc \in {"eval", "scatter"}

\* no thread has stopped the program
Running == \A u \in Threads : thread[u].pc # "crashed"

\* the head of compute(): the size checks, n_sub and the resize calls
Begin(t) ==
  /\ Running
  /\ thread[t].pc = "idle"
  /\ \E arg \in ConcArgs(dim, n_pols) :
       IF Raises(ArgumentsOk(arg.values, arg.grads, arg.grad_grads, n_pols))
       THEN /\ thread' = [thread EXCEPT ![t].pc = "raised", ![t].arg = arg]
            /\ UNCHANGED scratchVars
       ELSE \E sc \in {ResizeScratch(Scratch, arg.values, arg.grads,
                                     arg.grad_grads,
                                     SpaceN(polynomial_space), dim)} :
              /\ p_values' = sc.p_values
              /\ p_grads' = sc.p_grads
              /\ p_grad_grads' = sc.p_grad_grads
              /\ thread' =
                   [u \in Threads |->
                      IF u = t
                      THEN [pc |-> "eval", d |-> 0, arg |-> arg,
                            values |-> arg.values, grads |-> arg.grads,
                            grad_grads |-> arg.grad_grads, oob |-> FALSE,
                            overlapped |-> \E w \in Threads : InFlight(w)]
                      ELSE IF InFlight(u)
                      THEN [thread[u] EXCEPT !.overlapped = TRUE]
                      ELSE thread[u]]
  /\ UNCHANGED <<objectVars, callVars, query>>

\* the body of the loop over d up to polynomial_space->compute(): the
\* rotated point, and the scalar space filling the scratch
Eval(t) ==
  /\ Running
  /\ thread[t].pc = "eval"
  /\ \E sc \in {AnisoCompute(polynomial_space,
                             RotatedPoint(thread[t].arg.unit_point,
                                          thread[t].d, dim),
                             p_values, p_grads, p_grad_grads)} :
       /\ p_values' = sc.p_values
       /\ p_grads' = sc.p_grads
       /\ p_grad_grads' = sc.p_grad_grads
  /\ thread' = [thread EXCEPT ![t].pc = "scatter"]
  /\ UNCHANGED <<objectVars, callVars, query>>

\* the rest of the body: the three scatter loops, then ++d and the loop test
Scatter(t) ==
  /\ Running
  /\ thread[t].pc = "scatter"
  /\ \E crash \in BOOLEAN :
       \E r \in {ScatterDirection(
                   [values |-> thread[t].values, grads |-> thread[t].grads,
                    grad_grads |-> thread[t].grad_grads,
                    oob |-> thread[t].oob, crashed |-> FALSE],
                   Scratch, thread[t].d, SpaceN(polynomial_space), crash)} :
         thread' =
           [thread EXCEPT
              ![t].values = r.values,
              ![t].grads = r.grads,
              ![t].grad_grads = r.grad_grads,
              ![t].oob = r.oob,
              ![t].d = IF r.crashed THEN @ ELSE @ + 1,
              ![t].pc = IF r.crashed THEN "crashed"
                        ELSE IF thread[t].d + 1 < dim THEN "eval"
                        ELSE "done"]
  /\ UNCHANGED <<objectVars, scratchVars, callVars, query>>

InitConc == Init /\ dim = 2 /\ my_degree = 0

NextConc == \E t \in Threads : Begin(t) \/ Eval(t) \/ Scatter(t)

SpecConc == InitConc /\ [][NextConc]_vars

(***************************************************************************)
(* Notions the properties use.                                             *)
(***************************************************************************)
\* the size of the scalar space of the object
NSub == SpaceN(polynomial_space)

\* the last call passed the size checks
Passed == status \in {"ok", "oob", "crashed"}

\* a container length compute() rejects
BadSize(container) == Size(container) # 0 /\ Size(container) # n_pols

\* the components of a Tensor<1,dim> that are not zero
NonZero(t) == {c \in DOMAIN t : t[c] # Zero}

(***************************************************************************)
(* C1.  The n_pols the constructor stores equals dim * n_sub, n_sub being  *)
(* the size of the anisotropic space the same constructor builds (k+3      *)
(* polynomials in direction 0, k+1 in every other direction).              *)
(* The code breaks this for dim = 1 and dim = 3.                           *)
(***************************************************************************)
C1_NPolsIsDimTimesNSub ==
  /\ Size(polynomial_space[0]) = my_degree + 3
  /\ \A d \in 1 .. dim - 1 : Size(polynomial_space[d]) = my_degree + 1
  /\ n_pols = dim * NSub

(***************************************************************************)
(* C2.  compute_n_pols returns k+1 for dim = 1, 2(k+1)(k+3) for dim = 2,   *)
(* 3(k+1)(k+1)(k+2) for dim = 3, and for any other dim raises the          *)
(* unsupported-dimension error (ExcNotImplemented) instead of returning a  *)
(* size.                                                                   *)
(***************************************************************************)
C2_ClosedForm ==
  LET k == query.k
      r == query.result
  IN /\ query.dim = 1 => r.error = "none" /\ r.value = k + 1
     /\ query.dim = 2 => r.error = "none" /\ r.value = 2 * (k + 1) * (k + 3)
     /\ query.dim = 3 =>
          r.error = "none" /\ r.value = 3 * (k + 1) * (k + 1) * (k + 2)
     /\ query.dim \notin {1, 2, 3} => r.error = "ExcNotImplemented"

\* witness of C2: compute_n_pols<3>(2) was called and returned 108
C2_Witness ==
  query.dim = 3 /\ query.k = 2 /\ query.result = [error |-> "none", value |-> 108]

(***************************************************************************)
(* C3.  A call of compute() in which the length of values, of grads or of  *)
(* grad_grads is neither 0 nor n_pols raises ExcDimensionMismatch,         *)
(* whatever the other two lengths are, and writes nothing: the three       *)
(* containers and the scratch are as they were before the call.            *)
(***************************************************************************)
C3_MismatchRaisesBeforeAnyWrite ==
  [][(BadSize(given'.values) \/ BadSize(given'.grads)
        \/ BadSize(given'.grad_grads))
      => /\ status' = "ExcDimensionMismatch"
         /\ values' = given'.values
         /\ grads' = given'.grads
         /\ grad_grads' = given'.grad_grads
         /\ UNCHANGED scratchVars]_vars

\* witness of C3: after a call that filled the scratch, a call with full
\* values and grad_grads and grads one entry too long was rejected
C3_Witness ==
  /\ status = "ExcDimensionMismatch"
  /\ Size(given.values) = n_pols
  /\ Size(given.grads) = n_pols + 1
  /\ Size(given.grad_grads) = n_pols
  /\ Size(p_values) = NSub
  /\ Size(p_grad_grads) = 0

(***************************************************************************)
(* C4.  compute() called with values of length n_pols and empty grads and  *)
(* grad_grads does not fail, and afterwards every values[j] has exactly    *)
(* one component that is not zero, the component j / n_sub.                *)
(* The code breaks this: for dim = 1 and dim = 3 the call writes past the  *)
(* end of values.                                                          *)
(***************************************************************************)
C4_OneNonzeroComponent ==
  (/\ status # "constructed"
   /\ Size(given.values) = n_pols
   /\ Size(given.grads) = 0
   /\ Size(given.grad_grads) = 0)
  => /\ status = "ok"
     /\ \A j \in 0 .. n_pols - 1 : NonZero(values[j]) = {j \div NSub}

(***************************************************************************)
(* C5, as stated.  For dim = 2, k = 0: n_pols = 6, n_sub = 3, and          *)
(* compute() at (1/2, 1/2) with values of length 6 yields exactly 3 basis  *)
(* functions whose first component is not zero (slots 0..2) and exactly 3  *)
(* whose second component is not zero (slots 3..5).                        *)
(***************************************************************************)
C5_AtCentre ==
  /\ dim = 2
  /\ my_degree = 0
  /\ status = "ok"
  /\ given.unit_point = Project(PointA, 2)
  /\ Size(given.values) = n_pols

C5_ThreeNonzeroPerComponent ==
  C5_AtCentre
  => /\ n_pols = 6
     /\ NSub = 3
     /\ {j \in 0 .. 5 : values[j][0] # Zero} = {0, 1, 2}
     /\ {j \in 0 .. 5 : values[j][1] # Zero} = {3, 4, 5}

(***************************************************************************)
(* C5, amended.  For dim = 2, k = 0: n_pols = 6, n_sub = 3, and compute()  *)
(* at (1/2, 1/2) with values of length 6 writes the first component of     *)
(* slots 0..2 and the second component of slots 3..5 and leaves the other  *)
(* component as the caller supplied it; the values written are 0, 1, 0 in  *)
(* each block (1/2 is a node of the Lagrange basis on 0, 1/2, 1), so only  *)
(* slot 1 and slot 4 receive a value that is not zero.                     *)
(***************************************************************************)
C5_NodalValuesPerComponent ==
  C5_AtCentre
  => /\ n_pols = 6
     /\ NSub = 3
     /\ \A j \in 0 .. 5 :
          LET d == j \div 3
              i == j % 3
          IN /\ values[j][d] = (IF i = 1 THEN One ELSE Zero)
             /\ values[j][1 - d] = given.values[j][1 - d]

\* witness of C5: the call at (1/2, 1/2) with fresh values of length 6
\* returned, slot 1 holding (1, 0) and slot 4 holding (0, 1)
C5_Witness ==
  /\ C5_AtCentre
  /\ given.values[0][0] = Zero
  /\ NonZero(values[1]) = {0}
  /\ NonZero(values[4]) = {1}
  /\ \A j \in {0, 2, 3, 5} : NonZero(values[j]) = {}

(***************************************************************************)
(* C6.  For dim = 1, k = 0: n_pols = 1, and compute() at any point with    *)
(* values and grads of length 1 returns values[0] = [1], grads[0] = [[0]]  *)
(* and writes no other slot.                                               *)
(* The code breaks this: the scalar space it builds has 3 functions.       *)
(***************************************************************************)
C6_ConstantBasisFunction ==
  (dim = 1 /\ my_degree = 0)
  => /\ n_pols = 1
     /\ (/\ status # "constructed"
         /\ Size(given.values) = 1
         /\ Size(given.grads) = 1)
        => /\ status = "ok"
           /\ values[0] = Tensor1(1, One)
           /\ grads[0] = Tensor2(1, Zero)

(***************************************************************************)
(* C7.  Serial calls of compute() are history-independent; in particular   *)
(* a call that repeats the arguments of the call before it (the same       *)
(* point, the same freshly supplied containers) produces the same outputs  *)
(* and ends the same way.                                                  *)
(* The code breaks this where it writes past the end of a container.       *)
(***************************************************************************)
C7_RepeatedCallSameOutputs ==
  [][(status # "constructed" /\ given' = given)
      => /\ values' = values
         /\ grads' = grads
         /\ grad_grads' = grad_grads
         /\ status' = status]_vars

(***************************************************************************)
(* C8.  The scratch being a field of the object, calls of compute() on one *)
(* object that are not serialized are unsafe: a call can return outputs    *)
(* different from those it returns when run alone, leave a requested       *)
(* output unwritten, or index a container it was given empty.  Every such  *)
(* call ran while another call ran: a call that passed the size checks and *)
(* overlapped no other call returns, has stayed inside its containers, and *)
(* returns what it returns when run alone on a new object.                 *)
(***************************************************************************)
\* what the call of thread t returns when run alone on a new object
C8_Alone(t) == Compute(Obj, EmptyScratch, thread[t].arg, FALSE)

\* the call of thread t has ended as it ends when run alone
C8_AsAlone(t) ==
  /\ thread[t].pc = "done"
  /\ ~thread[t].oob
  /\ thread[t].values = C8_Alone(t).values
  /\ thread[t].grads = C8_Alone(t).grads
  /\ thread[t].grad_grads = C8_Alone(t).grad_grads

C8_OnlyOverlappedCallsGoWrong ==
  \A t \in Threads :
    (thread[t].pc \in {"done", "crashed"} /\ ~thread[t].overlapped)
    => C8_AsAlone(t)

\* witness of C8: a call that requested values alone has returned, values
\* holding in block 0 the scalar values of the other call's point, after
\* indexing the grads container it was given empty
C8_Witness ==
  \E t \in Threads :
    /\ thread[t].pc = "done"
    /\ thread[t].overlapped
    /\ Size(thread[t].arg.values) = n_pols
    /\ Size(thread[t].arg.grads) = 0
    /\ thread[t].values # C8_Alone(t).values
    /\ thread[t].oob


(***************************************************************************)
(* C9.  Rotation consistency: for dim in {2, 3}, every direction d and     *)
(* every point x, the block of direction d computed at x (slots d*n_sub .. *)
(* (d+1)*n_sub - 1) equals the block of direction 0 computed at the        *)
(* rotated point x' with x'[c] = x[(c+d) % dim], after shifting the vector *)
(* component and every derivative index by d modulo dim.                   *)
(* The code breaks this for dim = 3: the block of direction 2 does not fit *)
(* into containers of length n_pols.                                       *)
(***************************************************************************)
\* what a call with the arguments of the last call, but at the point x'
\* rotated by d, returns on an object with empty scratch
C9_AtRotatedPoint(d) ==
  Compute(Obj, EmptyScratch,
          [given EXCEPT !.unit_point =
             [c \in 0 .. dim - 1 |-> given.unit_point[(c + d) % dim]]],
          FALSE)

C9_RotationConsistent ==
  (dim \in {2, 3} /\ Passed)
  => \A d \in 0 .. dim - 1 :
       LET ref == C9_AtRotatedPoint(d)
           D == 0 .. dim - 1
       IN \A i \in 0 .. NSub - 1 :
            LET j == d * NSub + i
            IN /\ Size(given.values) # 0 =>
                    /\ j \in DOMAIN values
                    /\ values[j][d] = ref.values[i][0]
               /\ Size(given.grads) # 0 =>
                    /\ j \in DOMAIN grads
                    /\ \A e \in D :
                         grads[j][d][(e + d) % dim] = ref.grads[i][0][e]
               /\ Size(given.grad_grads) # 0 =>
                    /\ j \in DOMAIN grad_grads
                    /\ \A e \in D, f \in D :
                         grad_grads[j][d][(e + d) % dim][(f + d) % dim] =
                           ref.grad_grads[i][0][e][f]

(***************************************************************************)
(* C10.  After a call of compute() that requests values, for every         *)
(* direction d and every i in [0, n_sub), values[i + d*n_sub][d] is the    *)
(* i-th scalar basis value of the anisotropic space at the point p with    *)
(* p[c] = point[(c+d) % dim] for that same d.                              *)
(* The code breaks this for dim = 1 and dim = 3, where slots i + d*n_sub   *)
(* lie past the end of values.                                             *)
(***************************************************************************)
C10_BlockHoldsScalarValues ==
  (Passed /\ Size(given.values) # 0)
  => \A d \in 0 .. dim - 1 :
       LET p == [c \in 0 .. dim - 1 |-> given.unit_point[(c + d) % dim]]
           scalar == AnisoCompute(polynomial_space, p, Fill(NSub, Zero),
                                  EmptyVec, EmptyVec).p_values
       IN \A i \in 0 .. NSub - 1 :
            /\ i + d * NSub \in DOMAIN values
            /\ values[i + d * NSub][d] = scalar[i]

(***************************************************************************)
(* C11.  The derivative indices are un-rotated by the inverse of the point *)
(* rotation: for every d, i, d1, d2, compute() stores                      *)
(* grads[i+d*n_sub][d][(d1+d)%dim] = scratch_grad[i][d1] and               *)
(* grad_grads[i+d*n_sub][d][(d1+d)%dim][(d2+d)%dim] =                      *)
(* scratch_hess[i][d1][d2], the scratch being that of the point rotated by *)
(* d; each entry of row d (and of slice d) is written exactly once, and a  *)
(* symmetric scratch Hessian gives a symmetric stored Hessian.             *)
(* The code breaks this for dim = 1 and dim = 3, where slots i + d*n_sub   *)
(* lie past the end of grads and grad_grads.                               *)
(***************************************************************************)
\* the scratch gradients and Hessians of direction d in the last call
C11_ScratchOfDirection(d) ==
  AnisoCompute(polynomial_space, RotatedPoint(given.unit_point, d, dim),
               EmptyVec, Fill(NSub, Tensor1(dim, Zero)),
               Fill(NSub, Tensor2(dim, Zero)))

C11_DerivativesUnrotated ==
  Passed
  => \A d \in 0 .. dim - 1 :
       LET sc == C11_ScratchOfDirection(d)
           D == 0 .. dim - 1
       IN /\ {(d1 + d) % dim : d1 \in D} = D
          /\ \A i \in 0 .. NSub - 1 :
               LET j == i + d * NSub
               IN /\ Size(given.grads) # 0 =>
                       /\ j \in DOMAIN grads
                       /\ \A d1 \in D :
                            grads[j][d][(d1 + d) % dim] = sc.p_grads[i][d1]
                  /\ Size(given.grad_grads) # 0 =>
                       /\ j \in DOMAIN grad_grads
                       /\ \A d1 \in D, d2 \in D :
                            /\ grad_grads[j][d][(d1 + d) % dim][(d2 + d) % dim]
                                 = sc.p_grad_grads[i][d1][d2]
                            /\ grad_grads[j][d][d1][d2] =
                                 grad_grads[j][d][d2][d1]

(***************************************************************************)
(* C12.  For every dim, k and direction d, the basis functions of block d  *)
(* (vector component d) are products of a polynomial of the higher-degree  *)
(* family (equidistant Lagrange of degree k+2, k+3 polynomials) applied to *)
(* the original coordinate point[d] and of polynomials of the lower-degree *)
(* family (k+1 polynomials: the constant Legendre polynomial when k = 0,   *)
(* equidistant Lagrange of degree k when k > 0) applied to every other     *)
(* original coordinate.                                                    *)
(* The code breaks this for dim = 1 and dim = 3, where block d does not    *)
(* fit into values.                                                        *)
(***************************************************************************)
C12_Higher == LagrangeEquidistant_generate_complete_basis(my_degree + 2)

C12_Lower ==
  IF my_degree = 0 THEN Legendre_generate_complete_basis(0)
  ELSE LagrangeEquidistant_generate_complete_basis(my_degree)

\* the value at the point x of function i of block d: polynomial i0 of the
\* higher family at x[d] times polynomial i[c] of the lower family at the
\* coordinate c places after d, i0 running fastest
C12_BlockFunction(d, i, x) ==
  LET idx == [c \in 0 .. dim - 1 |->
                IF c = 0 THEN i % (my_degree + 3)
                ELSE (i \div ((my_degree + 3) * (my_degree + 1) ^ (c - 1)))
                       % (my_degree + 1)]
  IN ProductUpTo(
       [c \in 0 .. dim - 1 |->
          IF c = 0 THEN PolyValue(C12_Higher[idx[0]], x[d])[0]
          ELSE PolyValue(C12_Lower[idx[c]], x[(d + c) % dim])[0]],
       dim)

C12_BlocksBuiltFromFamilies ==
  /\ Size(C12_Higher) = my_degree + 3
  /\ Size(C12_Lower) = my_degree + 1
  /\ (Passed /\ Size(given.values) # 0)
     => \A d \in 0 .. dim - 1 :
          \A i \in 0 .. (my_degree + 3) * (my_degree + 1) ^ (dim - 1) - 1 :
            /\ i + d * NSub \in DOMAIN values
            /\ values[i + d * NSub][d] =
                 C12_BlockFunction(d, i, given.unit_point)

(***************************************************************************)
(* C13.  In every call of compute() that passes the size checks, every     *)
(* slot index i + d*n_sub written in a requested container is smaller than *)
(* n_pols, the length of the container, and the slot indices written are   *)
(* exactly 0 .. n_pols - 1, each written for exactly one pair (d, i).      *)
(* The code breaks this for dim = 1 and dim = 3.                           *)
(***************************************************************************)
\* the pairs (d, i) of the scatter loops of a call that requests an output
C13_Pairs == (0 .. dim - 1) \X (0 .. NSub - 1)

C13_SlotsInRange ==
  (/\ Passed
   /\ Size(given.values) + Size(given.grads) + Size(given.grad_grads) # 0)
  => /\ status = "ok"
     /\ \A q \in C13_Pairs : Slot(q[2], q[1], NSub) < n_pols
     /\ {Slot(q[2], q[1], NSub) : q \in C13_Pairs} = 0 .. n_pols - 1
     /\ \A q \in C13_Pairs, r \in C13_Pairs :
          Slot(q[2], q[1], NSub) = Slot(r[2], r[1], NSub) => q = r

(***************************************************************************)
(* C14.  A successful call of compute() (one that returns having stayed    *)
(* inside its containers) writes only component d of values[i+d*n_sub],    *)
(* row d of grads[i+d*n_sub] and slice d of grad_grads[i+d*n_sub]: every   *)
(* other component of the entries keeps the value the caller supplied, a   *)
(* container passed empty stays empty with its scratch sized 0, the        *)
(* containers keep their lengths, and my_degree, n_pols and the            *)
(* anisotropic space of the object are unchanged.                          *)
(***************************************************************************)
\* every component of the entries of after other than the one of its block
\* is as in before, and the length is the same
C14_OthersKept(before, after) ==
  /\ DOMAIN after = DOMAIN before
  /\ \A j \in DOMAIN after :
       \A c \in DOMAIN after[j] :
         c # j \div NSub => after[j][c] = before[j][c]

C14_WritesOnlyItsComponent ==
  [][status' = "ok"
      => /\ C14_OthersKept(given'.values, values')
         /\ C14_OthersKept(given'.grads, grads')
         /\ C14_OthersKept(given'.grad_grads, grad_grads')
         /\ Size(given'.values) = 0 => Size(p_values') = 0
         /\ Size(given'.grads) = 0 => Size(p_grads') = 0
         /\ Size(given'.grad_grads) = 0 => Size(p_grad_grads') = 0
         /\ UNCHANGED objectVars]_vars

\* witness of C14: a call for dim = 2 with values holding 7 in every
\* component and no grads has returned: slot 0 holds the value written in
\* component 0 and still 7 in component 1, slot NSub holds 7 in component 0,
\* and grads and its scratch are empty
C14_Witness ==
  /\ status = "ok"
  /\ dim = 2
  /\ Size(given.values) = n_pols
  /\ given.values[0] = Tensor1(2, Seven)
  /\ Size(given.grads) = 0
  /\ values[0][0] # Seven
  /\ values[0][1] = Seven
  /\ values[NSub][0] = Seven
  /\ values[NSub][1] # Seven
  /\ Size(grads) = 0
  /\ Size(p_grads) = 0

=============================================================================
